---- MODULE Spec2Model ----
(***************************************************************************)
(* State-machine model of dicti0nary_attack.crackers.hash_cracker:         *)
(* HashCracker.crack (sequential matcher) and HashCracker.crack_parallel   *)
(* (batched matcher on a ProcessPoolExecutor) with its worker function     *)
(* HashCracker._crack_batch.                                               *)
(***************************************************************************)
EXTENDS Integers, Sequences, FiniteSets, TLC

\* ------------------------------------------------------------------ bounds
MaxLen == 3
MaxRuns == 2
MaxWorkers == 2
MaxBatchSize == 2
MaxTargets == 2
MaxPulled == 4
MaxManagers == 2
MaxStream == 3
MaxCandLen == 3
MaxCount == 2

\* ------------------------------------------------------------ value domains
\* Python's None, as a value that is no candidate string.
None == "None"

\* stats['start_time'] / stats['end_time'] before any run (None).
NoTime == 0

\* Candidate strings a source may yield; the empty string is a legal candidate.
Passwords == {"", "a", "b"}

\* Target strings a caller may pass: digests of candidates in lower or upper
\* case hexadecimal, and the digest of a string no source of the model yields.
TargetHashes == {"e3b0", "ca97", "CA97", "9f86"}

\* Finite candidate sources: iter([...]) over a list of at most MaxLen candidates.
Sources == UNION {[1..n -> Passwords] : n \in 0..MaxLen}

\* Target lists given to crack_multiple: at most MaxTargets hashes, repeats and
\* the empty list included.
TargetLists == UNION {[1..n -> TargetHashes] : n \in 0..MaxTargets}

\* A candidate str whose encode() raises UnicodeEncodeError (a lone surrogate).
Unencodable == "ud800"

\* Sources that may also yield the candidate that cannot be encoded.
FaultySources == UNION {[1..n -> Passwords \cup {Unencodable}] : n \in 0..MaxLen}

\* password.encode() returns (it raises on a lone surrogate).
Encodable(p) == p # Unencodable

\* hash_func(password.encode()).hexdigest() for sha256, cut to its first four
\* hexadecimal characters (always lower case).
hexdigest(p) ==
    CASE p = "" -> "e3b0"
      [] p = "a" -> "ca97"
      [] p = "b" -> "3e23"

\* The keys of HashCracker.SUPPORTED_ALGORITHMS.
SUPPORTED_ALGORITHMS ==
    {"md5", "sha1", "sha224", "sha256", "sha384", "sha512", "blake2b", "blake2s"}

\* SUPPORTED_ALGORITHMS[algorithm](password.encode()).hexdigest(), cut to its
\* first four hexadecimal characters, for each supported algorithm.
DigestTable ==
    "md5" :> ("" :> "d41d" @@ "a" :> "0cc1" @@ "b" :> "92eb") @@
    "sha1" :> ("" :> "da39" @@ "a" :> "86f7" @@ "b" :> "e9d7") @@
    "sha224" :> ("" :> "d14a" @@ "a" :> "abd3" @@ "b" :> "c681") @@
    "sha256" :> ("" :> "e3b0" @@ "a" :> "ca97" @@ "b" :> "3e23") @@
    "sha384" :> ("" :> "38b0" @@ "a" :> "54a5" @@ "b" :> "98a9") @@
    "sha512" :> ("" :> "cf83" @@ "a" :> "1f40" @@ "b" :> "5267") @@
    "blake2b" :> ("" :> "786a" @@ "a" :> "333f" @@ "b" :> "c029") @@
    "blake2s" :> ("" :> "6921" @@ "a" :> "4a0d" @@ "b" :> "0444")

\* hash_func(password.encode()).hexdigest() with the configured algorithm.
HashFunc(alg, p) == DigestTable[alg][p]

\* Values the configuration may give for 'algorithm'.
ConfigAlgorithms == {"sha256", "md5", "invalid"}

\* str.lower() on the target strings of the model.
lower(t) ==
    CASE t = "CA97" -> "ca97"
      [] OTHER -> t

\* Python truthiness of an Optional[str]: None and '' are falsy.
Truthy(v) == v # None /\ v # ""

\* self.stats as __init__ leaves it.
InitStats == [attempts |-> 0, matches |-> 0, start_time |-> NoTime, end_time |-> NoTime]

VARIABLES
    pc,           \* position of the calling (orchestrating) thread
    op,           \* the method of the run in progress or last returned
    runs,         \* number of runs started on this HashCracker instance
    workers,      \* self.workers
    batch_size,   \* self.batch_size
    stats,        \* self.stats
    clock,        \* the value the next time.time() returns
    target_hash,  \* local target_hash (the raw argument, then lower-cased)
    raw_target,   \* the target_hash argument as the caller passed it
    source,       \* the list behind password_generator
    pulled,       \* how many candidates have been pulled from password_generator
    callback,     \* whether a callback was passed
    callbackLog,  \* the invocations of the callback, in order
    password,     \* loop variable `password` / result['match'] being returned
    result,       \* the value returned to the caller
    batch,        \* crack_parallel's local `batch`
    futures,      \* crack_parallel's local `futures`
    algorithm,    \* self.algorithm
    error,        \* the exception the call raised to its caller, if any
    source_raises,    \* whether password_generator raises after its last candidate
    target_hashes,    \* crack_multiple's target_hashes argument
    remaining_hashes, \* crack_multiple's local remaining_hashes
    results,      \* crack_multiple's local results
    snapshot,     \* the last dictionary get_stats returned to the caller
    heap,         \* the nested dictionaries of ConfigManager.DEFAULT_CONFIG, by identity
    managers,     \* the ConfigManager instances constructed so far
    request,      \* the dictionary a CLI command or web handler got from a ConfigManager
    gen           \* a PasswordGenerator instance and its generate() call

\* The state of a HashCracker instance and of the call in progress on it.
crackerVars == <<pc, op, runs, workers, batch_size, stats, clock, target_hash, raw_target,
                 source, pulled, callback, callbackLog, password, result, batch, futures,
                 algorithm, error, source_raises, target_hashes, remaining_hashes, results,
                 snapshot>>

\* The state of the ConfigManager instances and of their callers.
configVars == <<heap, managers, request>>

\* What a step of a HashCracker leaves alone outside the HashCracker.
extVars == <<configVars, gen>>

vars == <<crackerVars, extVars>>

\* crack_multiple's locals.
multiVars == <<target_hashes, remaining_hashes, results>>

\* What a step inside crack or crack_parallel that raises nothing leaves alone.
otherVars == <<algorithm, error, source_raises, multiVars, snapshot, extVars>>

\* An empty dict of results.
EmptyResults == [h \in {} |-> ""]

\* No get_stats dictionary has been handed to the caller.
NoSnapshot == [taken |-> FALSE]

\* ConfigManager.DEFAULT_CONFIG, lines 15-59: the nested dictionaries the class
\* body creates, by identity, with the keys the model follows.
DefaultHeap ==
    [cracker |-> [algorithm |-> "sha256", workers |-> 4],
     leetspeak |-> [max_substitutions |-> 3, min_length |-> 6]]

\* The outer dictionary DEFAULT_CONFIG: which nested dictionary each section is.
DefaultRefs == [cracker |-> "cracker", leetspeak |-> "leetspeak"]

\* No dictionary is in the hands of a command or handler.
NoRequest == [active |-> FALSE]

\* No generator has been constructed.
NoGen == [pc |-> "none"]

\* Before any ConfigManager or PasswordGenerator is constructed.
ExtInit ==
    /\ heap = DefaultHeap
    /\ managers = <<>>
    /\ request = NoRequest
    /\ gen = NoGen

\* Mutant of HashEquals: the digest is compared with the target as the caller
\* wrote it, not with the lower-cased target.
HashEquals_Raw(p, t) == HashFunc(algorithm, p) = raw_target

\* `computed_hash == target_hash` on one candidate.
HashEquals(p, t) == HashFunc(algorithm, p) = t

\* HashCracker.__init__ with a supported algorithm, workers and batch_size from
\* the configuration.
Init ==
    /\ pc = "idle"
    /\ op = None
    /\ runs = 0
    /\ workers \in 1..MaxWorkers
    /\ batch_size \in 1..MaxBatchSize
    /\ stats = InitStats
    /\ clock = 1
    /\ target_hash = None
    /\ raw_target = None
    /\ source = <<>>
    /\ pulled = 0
    /\ callback = FALSE
    /\ callbackLog = <<>>
    /\ password = None
    /\ result = None
    /\ batch = <<>>
    /\ futures = <<>>
    /\ algorithm = "sha256"
    /\ error = None
    /\ source_raises = FALSE
    /\ target_hashes = <<>>
    /\ remaining_hashes = {}
    /\ results = EmptyResults
    /\ snapshot = NoSnapshot
    /\ ExtInit

\* Values the configuration may give for 'workers' and 'batch_size'.
ConfigWorkers == -1..MaxWorkers
ConfigBatchSizes == 0..MaxBatchSize

\* Before HashCracker(config) is called: nothing of the instance exists yet.
InitNew ==
    /\ pc = "new"
    /\ op = None
    /\ runs = 0
    /\ workers = 1
    /\ batch_size = 1
    /\ stats = InitStats
    /\ clock = 1
    /\ target_hash = None
    /\ raw_target = None
    /\ source = <<>>
    /\ pulled = 0
    /\ callback = FALSE
    /\ callbackLog = <<>>
    /\ password = None
    /\ result = None
    /\ batch = <<>>
    /\ futures = <<>>
    /\ algorithm = None
    /\ error = None
    /\ source_raises = FALSE
    /\ target_hashes = <<>>
    /\ remaining_hashes = {}
    /\ results = EmptyResults
    /\ snapshot = NoSnapshot
    /\ ExtInit

\* Mutant of Supported: every algorithm name is accepted.
Supported_Any(alg) == TRUE

\* Line 50: `self.algorithm not in self.SUPPORTED_ALGORITHMS`, negated.
Supported(alg) == alg \in SUPPORTED_ALGORITHMS

\* HashCracker.__init__, lines 38-51: the attributes are taken from the
\* configuration as given; only the algorithm is checked.
Construct ==
    /\ pc = "new"
    /\ \E alg \in ConfigAlgorithms, w \in ConfigWorkers, b \in ConfigBatchSizes :
          /\ algorithm' = alg
          /\ workers' = w
          /\ batch_size' = b
          /\ IF Supported(alg)
             THEN pc' = "idle" /\ error' = None
             ELSE pc' = "ctor_raised" /\ error' = "ValueError"
    /\ stats' = InitStats
    /\ UNCHANGED <<op, runs, clock, target_hash, raw_target, source, pulled, callback,
                   callbackLog, password, result, batch, futures, source_raises,
                   multiVars, snapshot>>
    /\ UNCHANGED extVars

\* The caller may start a run when no run is in progress on the instance.
CanStart == pc = "idle" /\ runs < MaxRuns

\* What every run start does to the caller-side bookkeeping of the model.
BeginRun(method, t, src, cb) ==
    /\ op' = method
    /\ runs' = runs + 1
    /\ raw_target' = t
    /\ target_hash' = lower(t)
    /\ source' = src
    /\ pulled' = 0
    /\ callback' = cb
    /\ callbackLog' = <<>>
    /\ password' = None
    /\ result' = None
    /\ batch' = <<>>
    /\ futures' = <<>>
    /\ clock' = clock + 1

\* ------------------------------------------------------------------ crack
\* crack, lines 70-77: reset the statistics, normalise the target.
CrackStart ==
    /\ CanStart
    /\ \E t \in TargetHashes, src \in Sources, cb \in BOOLEAN :
          BeginRun("crack", t, src, cb)
    /\ source_raises' \in BOOLEAN
    /\ error' = None
    /\ stats' = [stats EXCEPT !.start_time = clock, !.attempts = 0, !.matches = 0]
    /\ pc' = "crack_loop"
    /\ UNCHANGED <<workers, batch_size, algorithm, multiVars, snapshot>>
    /\ UNCHANGED extVars

\* Mutant of CrackMatchStats: the match is not counted.
CrackMatchStats_NoCount(s, now) == [s EXCEPT !.end_time = now]

\* Mutant of CrackMatchStats: the end time is left to the finally clause.
CrackMatchStats_NoEndTime(s, now) == [s EXCEPT !.matches = @ + 1]

\* The statistics after lines 87-88 (a match was found).
CrackMatchStats(s, now) == [s EXCEPT !.matches = @ + 1, !.end_time = now]

\* Mutant of CountAttempt: the candidate is not counted.
CountAttempt_Skip(s) == s

\* Line 81: `self.stats['attempts'] += 1`.
CountAttempt(s) == [s EXCEPT !.attempts = @ + 1]

\* One iteration of the for loop, lines 80-88: pull a candidate, count it,
\* hash it, compare; on a match record it and go on to the callback.
CrackIterate ==
    /\ pc = "crack_loop"
    /\ pulled < Len(source)
    /\ pulled' = pulled + 1
    /\ password' = source[pulled + 1]
    /\ LET counted == CountAttempt(stats)
       IN IF HashEquals(source[pulled + 1], target_hash)
          THEN /\ stats' = CrackMatchStats(counted, clock)
               /\ clock' = clock + 1
               /\ pc' = "crack_callback"
          ELSE /\ stats' = counted
               /\ clock' = clock
               /\ pc' = "crack_loop"
    /\ UNCHANGED <<op, runs, workers, batch_size, target_hash, raw_target, source,
                   callback, callbackLog, result, batch, futures>>
    /\ UNCHANGED otherVars

\* One entry of the callback's log: its argument and the statistics it can see.
CallbackEntry(p) == [arg |-> p, matches |-> stats.matches, end_time |-> stats.end_time]

\* Lines 92-93: `if callback: callback(password)`.
CrackCallback ==
    /\ pc = "crack_callback"
    /\ callbackLog' = IF callback THEN Append(callbackLog, CallbackEntry(password))
                      ELSE callbackLog
    /\ pc' = "crack_return"
    /\ UNCHANGED <<op, runs, workers, batch_size, stats, clock, target_hash, raw_target,
                   source, pulled, callback, password, result, batch, futures>>
    /\ UNCHANGED otherVars

\* Lines 95 and 103-104: `return password`, through the finally clause.
CrackReturnMatch ==
    /\ pc = "crack_return"
    /\ stats' = [stats EXCEPT !.end_time = clock]
    /\ clock' = clock + 1
    /\ result' = password
    /\ pc' = "done"
    /\ UNCHANGED <<op, runs, workers, batch_size, target_hash, raw_target, source, pulled,
                   callback, callbackLog, password, batch, futures>>
    /\ UNCHANGED otherVars

\* Lines 80 and 103-107: the source is exhausted; the finally clause records the
\* end time and crack returns None.
CrackExhausted ==
    /\ pc = "crack_loop"
    /\ pulled = Len(source)
    /\ ~source_raises
    /\ stats' = [stats EXCEPT !.end_time = clock]
    /\ clock' = clock + 1
    /\ result' = None
    /\ pc' = "done"
    /\ UNCHANGED <<op, runs, workers, batch_size, target_hash, raw_target, source, pulled,
                   callback, callbackLog, password, batch, futures>>
    /\ UNCHANGED otherVars

\* Lines 80 and 103-104: password_generator raises instead of yielding; the
\* finally clause records the end time and the exception goes to the caller.
CrackSourceRaises ==
    /\ pc = "crack_loop"
    /\ pulled = Len(source)
    /\ source_raises
    /\ stats' = [stats EXCEPT !.end_time = clock]
    /\ clock' = clock + 1
    /\ error' = "SourceError"
    /\ pc' = "raised"
    /\ UNCHANGED <<op, runs, workers, batch_size, target_hash, raw_target, source, pulled,
                   callback, callbackLog, password, result, batch, futures>>
    /\ UNCHANGED <<algorithm, source_raises, multiVars, snapshot>>
    /\ UNCHANGED extVars

\* --------------------------------------------------------- crack_parallel
\* executor.submit(self._crack_batch, target_hash, batch, self.algorithm): a new
\* future, waiting in the executor's queue, with the worker's local counter.
NewFuture(b) ==
    [passwords |-> b, state |-> "pending", attempts |-> 0, match |-> None,
     consumed |-> FALSE, cancel_called |-> FALSE]

\* crack_parallel, lines 126-135: reset attempts (matches is left as it is),
\* normalise the target, open the executor. ProcessPoolExecutor raises
\* ValueError when max_workers is zero or negative.
ParallelBegin(srcs) ==
    /\ CanStart
    /\ \E t \in TargetHashes, src \in srcs, cb \in BOOLEAN :
          BeginRun("crack_parallel", t, src, cb)
    /\ source_raises' = FALSE
    /\ stats' = [stats EXCEPT !.start_time = clock, !.attempts = 0]
    /\ IF workers >= 1
       THEN pc' = "par_pull" /\ error' = None
       ELSE pc' = "raised" /\ error' = "ValueError"
    /\ UNCHANGED <<workers, batch_size, algorithm, multiVars, snapshot>>
    /\ UNCHANGED extVars

\* crack_parallel called with a source whose candidates can all be encoded.
ParallelStart == ParallelBegin(Sources)

\* crack_parallel called with a source that may yield an unencodable candidate.
ParallelStartFaulty == ParallelBegin(FaultySources)

\* Mutant of BatchFull: the batch is submitted one candidate late.
BatchFull_Late(b) == Len(b) > batch_size

\* Line 140: `len(batch) >= self.batch_size`.
BatchFull(b) == Len(b) >= batch_size

\* One iteration of the for loop, lines 137-148: pull a candidate into the
\* batch and submit the batch when it has batch_size candidates.
ParallelPull ==
    /\ pc = "par_pull"
    /\ pulled < Len(source)
    /\ pulled' = pulled + 1
    /\ LET b == Append(batch, source[pulled + 1])
       IN IF BatchFull(b)
          THEN /\ futures' = Append(futures, NewFuture(b))
               /\ batch' = <<>>
          ELSE /\ futures' = futures
               /\ batch' = b
    /\ UNCHANGED <<pc, op, runs, workers, batch_size, stats, clock, target_hash, raw_target,
                   source, callback, callbackLog, password, result>>
    /\ UNCHANGED otherVars

\* Lines 137 and 150-158: the source is exhausted; submit the remaining
\* candidates, if any, and go on to the results.
ParallelSubmitRest ==
    /\ pc = "par_pull"
    /\ pulled = Len(source)
    /\ futures' = IF batch # <<>> THEN Append(futures, NewFuture(batch)) ELSE futures
    /\ pc' = "par_collect"
    /\ UNCHANGED <<op, runs, workers, batch_size, stats, clock, target_hash, raw_target,
                   source, pulled, callback, callbackLog, password, result, batch>>
    /\ UNCHANGED otherVars

\* crack_parallel called with an unbounded source: itertools.cycle over a
\* non-empty list of candidates, which never raises StopIteration.
ParallelStartUnbounded ==
    /\ CanStart
    /\ workers >= 1
    /\ \E t \in TargetHashes, src \in Sources \ {<<>>}, cb \in BOOLEAN :
          BeginRun("crack_parallel", t, src, cb)
    /\ source_raises' = FALSE
    /\ error' = None
    /\ stats' = [stats EXCEPT !.start_time = clock, !.attempts = 0]
    /\ pc' = "par_pull_unbounded"
    /\ UNCHANGED <<workers, batch_size, algorithm, multiVars, snapshot>>
    /\ UNCHANGED extVars

\* The k-th candidate of the unbounded source.
CycleAt(k) == source[((k - 1) % Len(source)) + 1]

\* One iteration of the for loop, lines 137-148, on the unbounded source; the
\* loop has no other exit than the end of the source, which never comes. The
\* model follows the batches of the first MaxPulled candidates; after them the
\* loop goes on pulling and filling batches: the counter is then kept as
\* MaxPulled plus the parity of the further pulls, and the further batches
\* are submitted but not followed.
ParallelPullUnbounded ==
    /\ pc = "par_pull_unbounded"
    /\ \E c \in {source[k] : k \in DOMAIN source} :
          /\ pulled < MaxPulled => c = CycleAt(pulled + 1)
          /\ LET b == Append(batch, c)
             IN IF BatchFull(b)
                THEN /\ futures' = IF pulled < MaxPulled
                                   THEN Append(futures, NewFuture(b))
                                   ELSE futures
                     /\ batch' = <<>>
                ELSE /\ futures' = futures
                     /\ batch' = b
    /\ pulled' = IF pulled <= MaxPulled THEN pulled + 1 ELSE MaxPulled
    /\ UNCHANGED <<pc, op, runs, workers, batch_size, stats, clock, target_hash, raw_target,
                   source, callback, callbackLog, password, result>>
    /\ UNCHANGED otherVars

\* The futures a worker process is evaluating.
Running == {i \in DOMAIN futures : futures[i].state = "running"}

\* The futures still waiting in the executor's queue.
Pending == {i \in DOMAIN futures : futures[i].state = "pending"}

\* Mutant of WorkerStart: a waiting batch is started whether or not a worker
\* process is free.
WorkerStart_Unbounded ==
    /\ Pending # {}
    /\ LET i == CHOOSE j \in Pending : \A k \in Pending : j <= k
       IN futures' = [futures EXCEPT ![i].state = "running"]
    /\ UNCHANGED <<pc, op, runs, workers, batch_size, stats, clock, target_hash, raw_target,
                   source, pulled, callback, callbackLog, password, result, batch>>
    /\ UNCHANGED otherVars

\* ProcessPoolExecutor(max_workers=self.workers): a free worker process takes
\* the oldest waiting batch.
WorkerStart ==
    /\ Pending # {}
    /\ Cardinality(Running) < workers
    /\ LET i == CHOOSE j \in Pending : \A k \in Pending : j <= k
       IN futures' = [futures EXCEPT ![i].state = "running"]
    /\ UNCHANGED <<pc, op, runs, workers, batch_size, stats, clock, target_hash, raw_target,
                   source, pulled, callback, callbackLog, password, result, batch>>
    /\ UNCHANGED otherVars

\* _crack_batch, lines 200-213, one candidate of the batch: count it, hash it
\* (encode() may raise, which ends the call with an exception), compare; return
\* on a match or after the last candidate of the batch.
CrackBatchStep(f, t) ==
    LET p == f.passwords[f.attempts + 1]
        n == f.attempts + 1
    IN IF ~Encodable(p)
       THEN [f EXCEPT !.attempts = n, !.state = "failed"]
       ELSE IF HashEquals(p, t)
       THEN [f EXCEPT !.attempts = n, !.match = p, !.state = "finished"]
       ELSE IF n = Len(f.passwords)
            THEN [f EXCEPT !.attempts = n, !.match = None, !.state = "finished"]
            ELSE [f EXCEPT !.attempts = n]

\* A worker process evaluates the next candidate of its batch.
WorkerEvaluate ==
    /\ \E i \in Running :
          futures' = [futures EXCEPT ![i] = CrackBatchStep(futures[i], target_hash)]
    /\ UNCHANGED <<pc, op, runs, workers, batch_size, stats, clock, target_hash, raw_target,
                   source, pulled, callback, callbackLog, password, result, batch>>
    /\ UNCHANGED otherVars

\* Mutant of CancelAll: cancel() also stops a batch a worker is evaluating.
CancelAll_Interrupt(fs) ==
    [i \in DOMAIN fs |->
        [fs[i] EXCEPT !.cancel_called = TRUE,
                      !.state = IF @ \in {"pending", "running"} THEN "cancelled" ELSE @]]

\* Lines 172-173: f.cancel() on every future of the list. Future.cancel() only
\* cancels a future that has not started; a running or finished one stays.
CancelAll(fs) ==
    [i \in DOMAIN fs |->
        [fs[i] EXCEPT !.cancel_called = TRUE,
                      !.state = IF @ = "pending" THEN "cancelled" ELSE @]]

\* Mutant of MergeAttempts: the size of the batch is counted, not the number of
\* candidates the worker evaluated.
MergeAttempts_BatchLen(s, f) == [s EXCEPT !.attempts = @ + Len(f.passwords)]

\* Line 163: the statistics after a result has been merged.
MergeAttempts(s, f) == [s EXCEPT !.attempts = @ + f.attempts]

\* Line 165: `if result['match']:`.
ResultHasMatch(f) == Truthy(f.match)

\* The futures as_completed may yield next: finished and not yet yielded.
Completed == {i \in DOMAIN futures : futures[i].state = "finished" /\ ~futures[i].consumed}

\* Lines 161-173: as_completed yields a finished future; its attempts are
\* merged; on a match the match is recorded and every future is cancelled.
ParallelConsume ==
    /\ pc = "par_collect"
    /\ \E i \in Completed :
          LET f == futures[i]
              seen == [futures EXCEPT ![i].consumed = TRUE]
          IN IF ResultHasMatch(f)
             THEN /\ stats' = [MergeAttempts(stats, f) EXCEPT !.matches = @ + 1,
                                                              !.end_time = clock]
                  /\ clock' = clock + 1
                  /\ futures' = CancelAll(seen)
                  /\ password' = f.match
                  /\ pc' = "par_callback"
             ELSE /\ stats' = MergeAttempts(stats, f)
                  /\ clock' = clock
                  /\ futures' = seen
                  /\ password' = password
                  /\ pc' = "par_collect"
    /\ UNCHANGED <<op, runs, workers, batch_size, target_hash, raw_target, source, pulled,
                   callback, callbackLog, result, batch>>
    /\ UNCHANGED otherVars

\* The futures as_completed may yield next that ended with an exception.
Failed == {i \in DOMAIN futures : futures[i].state = "failed" /\ ~futures[i].consumed}

\* Mutant of ParallelResultRaises: the worker's exception is swallowed and the
\* batch is treated as one without a match.
ParallelResultRaises_Swallow ==
    /\ pc = "par_collect"
    /\ \E i \in Failed : futures' = [futures EXCEPT ![i].consumed = TRUE]
    /\ UNCHANGED <<pc, op, runs, workers, batch_size, stats, clock, target_hash, raw_target,
                   source, pulled, callback, callbackLog, password, result, batch>>
    /\ UNCHANGED otherVars

\* Lines 161-162: as_completed yields a future whose worker raised;
\* future.result() re-raises the exception, which leaves the loop (nothing is
\* merged, nothing is cancelled) towards the end of the with block.
ParallelResultRaises ==
    /\ pc = "par_collect"
    /\ \E i \in Failed : futures' = [futures EXCEPT ![i].consumed = TRUE]
    /\ error' = "WorkerError"
    /\ pc' = "par_raising"
    /\ UNCHANGED <<op, runs, workers, batch_size, stats, clock, target_hash, raw_target,
                   source, pulled, callback, callbackLog, password, result, batch>>
    /\ UNCHANGED <<algorithm, source_raises, multiVars, snapshot>>
    /\ UNCHANGED extVars

\* The exception leaves the with block of line 133: executor.shutdown(wait=True)
\* lets every submitted batch run to its end, then the exception reaches the
\* caller (line 180 is not executed).
ParallelRaise ==
    /\ pc = "par_raising"
    /\ Running = {}
    /\ Pending = {}
    /\ pc' = "raised"
    /\ UNCHANGED <<op, runs, workers, batch_size, stats, clock, target_hash, raw_target,
                   source, pulled, callback, callbackLog, password, result, batch, futures>>
    /\ UNCHANGED otherVars

\* Lines 175-176: `if callback: callback(result['match'])`.
ParallelCallback ==
    /\ pc = "par_callback"
    /\ callbackLog' = IF callback THEN Append(callbackLog, CallbackEntry(password))
                      ELSE callbackLog
    /\ pc' = "par_shutdown"
    /\ UNCHANGED <<op, runs, workers, batch_size, stats, clock, target_hash, raw_target,
                   source, pulled, callback, password, result, batch, futures>>
    /\ UNCHANGED otherVars

\* Line 178 leaving the with block of line 133: executor.shutdown(wait=True)
\* waits for the batches the workers are evaluating, then the match is returned.
ParallelReturnMatch ==
    /\ pc = "par_shutdown"
    /\ Running = {}
    /\ result' = password
    /\ pc' = "done"
    /\ UNCHANGED <<op, runs, workers, batch_size, stats, clock, target_hash, raw_target,
                   source, pulled, callback, callbackLog, password, batch, futures>>
    /\ UNCHANGED otherVars

\* Lines 161 and 180-182: every future has been yielded without a match; the
\* end time is recorded and crack_parallel returns None.
ParallelExhausted ==
    /\ pc = "par_collect"
    /\ \A i \in DOMAIN futures : futures[i].consumed
    /\ stats' = [stats EXCEPT !.end_time = clock]
    /\ clock' = clock + 1
    /\ result' = None
    /\ pc' = "done"
    /\ UNCHANGED <<op, runs, workers, batch_size, target_hash, raw_target, source, pulled,
                   callback, callbackLog, password, batch, futures>>
    /\ UNCHANGED otherVars

\* --------------------------------------------------------- crack_multiple
\* Lines 236-237: `set(h.lower() for h in target_hashes)`.
RemainingInit(ts) == {lower(ts[i]) : i \in DOMAIN ts}

\* crack_multiple, lines 232-242: reset the statistics (end_time is left as it
\* is), normalise the targets, start with every target outstanding.
MultiStart ==
    /\ CanStart
    /\ \E ts \in TargetLists, src \in Sources, cb \in BOOLEAN :
          /\ BeginRun("crack_multiple", None, src, cb)
          /\ target_hashes' = ts
          /\ remaining_hashes' = RemainingInit(ts)
    /\ results' = EmptyResults
    /\ source_raises' \in BOOLEAN
    /\ error' = None
    /\ stats' = [stats EXCEPT !.start_time = clock, !.attempts = 0, !.matches = 0]
    /\ pc' = "multi_loop"
    /\ UNCHANGED <<workers, batch_size, algorithm, snapshot>>
    /\ UNCHANGED extVars

\* Mutant of AllResolved: the loop never breaks early.
AllResolved_Never(remaining) == FALSE

\* Line 245: `if not remaining_hashes`.
AllResolved(remaining) == remaining = {}

\* Mutant of Outstanding: membership in the whole target set, resolved or not.
Outstanding_Any(h, remaining) == h \in RemainingInit(target_hashes)

\* Line 251: `computed_hash in remaining_hashes`.
Outstanding(h, remaining) == h \in remaining

\* Mutant of RecordMatch: the digest is stored in place of the candidate.
RecordMatch_Digest(res, h, p) ==
    [x \in DOMAIN res \cup {h} |-> IF x = h THEN h ELSE res[x]]

\* Line 252: `results[computed_hash] = password`.
RecordMatch(res, h, p) ==
    [x \in DOMAIN res \cup {h} |-> IF x = h THEN p ELSE res[x]]

\* Mutant of MultiMatchStats: the match is not counted.
MultiMatchStats_NoCount(s) == s

\* Line 254: `self.stats['matches'] += 1`.
MultiMatchStats(s) == [s EXCEPT !.matches = @ + 1]

\* Line 261: `self.stats['end_time'] = time.time()`, then `return results`.
MultiFinish ==
    /\ stats' = [stats EXCEPT !.end_time = clock]
    /\ clock' = clock + 1
    /\ pc' = "done"

\* One iteration of the for loop, lines 244-254: pull a candidate; leave the
\* loop if nothing is outstanding, else count it, hash it and look the digest
\* up in the outstanding set; on a hit record it and go on to the callback.
MultiIterate ==
    /\ pc = "multi_loop"
    /\ pulled < Len(source)
    /\ pulled' = pulled + 1
    /\ LET p == source[pulled + 1]
           h == HashFunc(algorithm, p)
           counted == CountAttempt(stats)
       IN IF AllResolved(remaining_hashes)
          THEN /\ MultiFinish
               /\ UNCHANGED <<password, remaining_hashes, results>>
          ELSE /\ password' = p
               /\ clock' = clock
               /\ IF Outstanding(h, remaining_hashes)
                  THEN /\ results' = RecordMatch(results, h, p)
                       /\ remaining_hashes' = remaining_hashes \ {h}
                       /\ stats' = MultiMatchStats(counted)
                       /\ pc' = "multi_callback"
                  ELSE /\ stats' = counted
                       /\ pc' = "multi_loop"
                       /\ UNCHANGED <<remaining_hashes, results>>
    /\ UNCHANGED <<op, runs, workers, batch_size, target_hash, raw_target, source,
                   callback, callbackLog, result, batch, futures>>
    /\ UNCHANGED <<algorithm, error, source_raises, target_hashes, snapshot>>
    /\ UNCHANGED extVars

\* Mutant of MultiCallbackArgs: the arguments are passed in the other order.
MultiCallbackArgs_Swapped(h, p) == <<p, h>>

\* Line 259: the arguments of `callback(computed_hash, password)`.
MultiCallbackArgs(h, p) == <<h, p>>

\* Lines 258-259: `if callback: callback(computed_hash, password)`.
MultiCallback ==
    /\ pc = "multi_callback"
    /\ callbackLog' =
          IF callback
          THEN Append(callbackLog,
                      CallbackEntry(MultiCallbackArgs(HashFunc(algorithm, password), password)))
          ELSE callbackLog
    /\ pc' = "multi_loop"
    /\ UNCHANGED <<op, runs, workers, batch_size, stats, clock, target_hash, raw_target,
                   source, pulled, callback, password, result, batch, futures>>
    /\ UNCHANGED otherVars

\* Lines 244 and 261-264: the source is exhausted; record the end time and
\* return the mapping.
MultiExhausted ==
    /\ pc = "multi_loop"
    /\ pulled = Len(source)
    /\ ~source_raises
    /\ MultiFinish
    /\ UNCHANGED <<op, runs, workers, batch_size, target_hash, raw_target, source, pulled,
                   callback, callbackLog, password, result, batch, futures>>
    /\ UNCHANGED otherVars

\* Line 244: password_generator raises instead of yielding; there is no
\* try/finally, so the exception goes to the caller and end_time is not set.
MultiSourceRaises ==
    /\ pc = "multi_loop"
    /\ pulled = Len(source)
    /\ source_raises
    /\ error' = "SourceError"
    /\ pc' = "raised"
    /\ UNCHANGED <<op, runs, workers, batch_size, stats, clock, target_hash, raw_target,
                   source, pulled, callback, callbackLog, password, result, batch, futures>>
    /\ UNCHANGED <<algorithm, source_raises, multiVars, snapshot>>
    /\ UNCHANGED extVars

\* --------------------------------------------------------------- get_stats
\* An Optional value: <<>> is None, <<x>> is the value x.
Null == <<>>

\* get_stats, lines 268-278, on a copy s of self.stats. A time is truthy when
\* it is set. The rate attempts / elapsed is kept as the pair of its terms.
get_stats(s) ==
    IF s.start_time # NoTime /\ s.end_time # NoTime
    THEN LET elapsed == s.end_time - s.start_time
         IN [attempts |-> s.attempts, matches |-> s.matches,
             start_time |-> s.start_time, end_time |-> s.end_time,
             elapsed_time |-> <<elapsed>>,
             rate |-> IF elapsed > 0 THEN <<(<<s.attempts, elapsed>>)>> ELSE <<0>>]
    ELSE [attempts |-> s.attempts, matches |-> s.matches,
          start_time |-> s.start_time, end_time |-> s.end_time,
          elapsed_time |-> Null, rate |-> Null]

\* Where the caller's code can call get_stats: before the first run, inside a
\* callback, or after a run returned or raised.
CanObserve ==
    \/ pc = "idle" /\ runs = 0
    \/ pc \in {"crack_callback", "multi_callback"} /\ callback
    \/ pc \in {"done", "raised"}

\* Mutant of ReturnsLiveDict: get_stats works on self.stats itself.
ReturnsLiveDict_NoCopy == TRUE

\* Line 268: `stats = self.stats.copy()`; the dictionary returned is a new
\* object, not self.stats.
ReturnsLiveDict == FALSE

\* A call of get_stats; the model keeps what it returned and where it was called.
GetStats ==
    /\ CanObserve
    /\ snapshot' = [taken |-> TRUE, at |-> pc, run |-> runs, view |-> get_stats(stats),
                    live |-> ReturnsLiveDict]
    /\ snapshot' # snapshot
    /\ UNCHANGED <<pc, op, runs, workers, batch_size, stats, clock, target_hash, raw_target,
                   source, pulled, callback, callbackLog, password, result, batch, futures,
                   algorithm, error, source_raises, multiVars>>
    /\ UNCHANGED extVars

\* The value the caller writes into the dictionary get_stats returned.
Tampered == -1

\* The caller's code writes d['attempts'] = Tampered into the dictionary d that
\* get_stats returned; self.stats is written only if d is that very object.
SnapshotMutate ==
    /\ CanObserve
    /\ snapshot.taken
    /\ snapshot.view.attempts # Tampered
    /\ snapshot' = [snapshot EXCEPT !.view.attempts = Tampered]
    /\ stats' = IF snapshot.live THEN [stats EXCEPT !.attempts = Tampered] ELSE stats
    /\ UNCHANGED <<pc, op, runs, workers, batch_size, clock, target_hash, raw_target,
                   source, pulled, callback, callbackLog, password, result, batch, futures,
                   algorithm, error, source_raises, multiVars>>
    /\ UNCHANGED extVars

\* The call has returned or raised and the caller goes on, keeping the
\* dictionary it got from get_stats.
CallerKeepsSnapshot ==
    /\ pc \in {"done", "raised"}
    /\ pc' = "idle"
    /\ target_hash' = None
    /\ raw_target' = None
    /\ source' = <<>>
    /\ pulled' = 0
    /\ callback' = FALSE
    /\ callbackLog' = <<>>
    /\ password' = None
    /\ result' = None
    /\ error' = None
    /\ source_raises' = FALSE
    /\ UNCHANGED <<op, runs, workers, batch_size, stats, clock, algorithm, batch, futures,
                   multiVars, snapshot>>
    /\ UNCHANGED extVars

\* ------------------------------------------------------------ ConfigManager
\* Line 69: `self.DEFAULT_CONFIG.copy()`, a shallow copy: a new outer
\* dictionary whose values are the same nested dictionaries.
CopyConfig(refs) == refs

\* One assignment `d[key] = val` in the section `section`.
Writes ==
    {[section |-> "cracker", key |-> "algorithm", val |-> "md5"],
     [section |-> "cracker", key |-> "workers", val |-> 1],
     [section |-> "leetspeak", key |-> "max_substitutions", val |-> 5],
     [section |-> "leetspeak", key |-> "min_length", val |-> 1]}

\* What a configuration file may hold: one nested key with its value.
FileOverlays == {w \in Writes : w.key \in {"algorithm", "max_substitutions"}}

\* The heap after `d[key] = val` on the dictionary object d.
Assign(h, d, key, val) == [h EXCEPT ![d][key] = val]

\* _merge_config, lines 108-112, and set, lines 144-152: the walk goes down
\* the manager's outer dictionary into the nested dictionary of the section
\* and assigns there.
WriteThrough(h, refs, w) == Assign(h, refs[w.section], w.key, w.val)

\* get('cracker.algorithm') and the like, lines 125-134, for the keys the
\* model follows; get_cracker_config and get_generator_config show the same
\* nested dictionaries.
ReportOf(h, refs) ==
    [algorithm |-> h[refs.cracker].algorithm,
     workers |-> h[refs.cracker].workers,
     max_substitutions |-> h[refs.leetspeak].max_substitutions,
     min_length |-> h[refs.leetspeak].min_length]

\* ConfigManager(config_path), lines 68-72, with load_config, lines 81-93, when
\* a file is given; the model notes what the new manager reports first.
NewManager ==
    /\ Len(managers) < MaxManagers
    /\ \E with_file \in BOOLEAN, f \in FileOverlays :
          LET refs == CopyConfig(DefaultRefs)
              loaded == IF with_file THEN WriteThrough(heap, refs, f) ELSE heap
          IN /\ heap' = loaded
             /\ managers' = Append(managers,
                                   [refs |-> refs, from_file |-> with_file,
                                    first |-> ReportOf(loaded, refs)])
    /\ UNCHANGED <<request, gen, crackerVars>>

\* ConfigManager.set, lines 144-152, on one of the managers.
ConfigSet ==
    /\ \E i \in DOMAIN managers, w \in Writes :
          heap' = WriteThrough(heap, managers[i].refs, w)
    /\ heap' # heap
    /\ UNCHANGED <<managers, request, gen, crackerVars>>

\* get_cracker_config, line 191, and get_generator_config, line 187: the
\* nested dictionary itself is returned.
ReturnedDict(refs, section) == refs[section]

\* A CLI command or a web handler asks a manager for a section (cli.py line
\* 173, app.py line 91).
HandlerGet ==
    /\ ~request.active
    /\ \E i \in DOMAIN managers, section \in DOMAIN DefaultRefs :
          request' = [active |-> TRUE, manager |-> i, section |-> section,
                      dict |-> ReturnedDict(managers[i].refs, section),
                      written |-> FALSE]
    /\ UNCHANGED <<heap, managers, gen, crackerVars>>

\* The command or handler writes its per-call override into the dictionary it
\* got (cli.py lines 174-175, app.py lines 94-97).
HandlerOverride ==
    /\ request.active
    /\ ~request.written
    /\ \E w \in Writes :
          /\ w.section = request.section
          /\ heap' = Assign(heap, request.dict, w.key, w.val)
    /\ request' = [request EXCEPT !.written = TRUE]
    /\ UNCHANGED <<managers, gen, crackerVars>>

\* The command or handler is done with the dictionary.
HandlerEnd ==
    /\ request.active
    /\ request' = NoRequest
    /\ UNCHANGED <<heap, managers, gen, crackerVars>>

\* -------------------------------------------------------- PasswordGenerator
\* The five generators of the package.
LoopGenerators == {"leetspeak", "phonetic", "pattern"}
DrawGenerators == {"random", "markov"}

\* The generator's configuration: min_length and max_length.
GenConfigs ==
    {[min_length |-> a, max_length |-> b] : a \in 1..MaxCandLen, b \in 1..MaxCandLen}

\* The count argument of generate: None (Null) or an integer >= 0.
Counts == {Null} \cup {<<n>> : n \in 0..MaxCount}

\* What the generator's inner machinery produces, one value per candidate: for
\* the loop generators the length of the next variation, for the other two
\* the outcome of the random choices.
Draws == 0..(MaxCandLen + 1)
Streams == UNION {[1..n -> Draws] : n \in 0..MaxStream}

\* Python truthiness of `count`: None and 0 are falsy.
CountTruthy(count) == count # Null /\ count[1] # 0

\* random_gen.py line 63: `max_attempts = (count or 1000) * 10`.
MaxAttempts(count) == (IF CountTruthy(count) THEN count[1] ELSE 1000) * 10

\* `count is None or generated < count`.
Below(count, generated) == IF count = Null THEN TRUE ELSE generated < count[1]

\* The loop of generate goes on: `if count and generated >= count: break`
\* negated (leetspeak.py lines 65 and 70, phonetic.py lines 75 and 90,
\* pattern.py line 49); `count is None or generated < count` (markov.py line
\* 74), with `and attempts < max_attempts` in random_gen.py line 66.
GoesOn(kind, count, generated, attempts) ==
    CASE kind \in LoopGenerators -> ~(CountTruthy(count) /\ generated >= count[1])
      [] kind = "markov" -> Below(count, generated)
      [] kind = "random" -> Below(count, generated) /\ attempts < MaxAttempts(count)

\* The smaller of two numbers.
Min(a, b) == IF a <= b THEN a ELSE b

\* The length of the string the generator's machinery makes of the draw d: a
\* variation of a base word or pattern has the length it has; random_gen.py
\* line 70 takes randint(min_length, max_length) (possible when min_length <=
\* max_length); the chain of markov.py lines 92-109 stops at max_length.
RawLen(kind, d, cfg) ==
    CASE kind \in LoopGenerators -> d
      [] kind = "random" -> cfg.min_length + (d % (cfg.max_length - cfg.min_length + 1))
      [] kind = "markov" -> Min(d, cfg.max_length)

\* The candidate handed to the loop of generate, by its length; Null is the
\* None that _generate_one returns for a chain shorter than min_length
\* (markov.py lines 113-114) and the empty string that line 77 skips.
Candidate(kind, d, cfg) ==
    IF kind = "markov" /\ RawLen(kind, d, cfg) < cfg.min_length
    THEN Null
    ELSE <<RawLen(kind, d, cfg)>>

\* Mutant of PassesFilters: the upper limit is not checked.
PassesFilters_NoMax(len, cfg) == ~(len < cfg.min_length)

\* apply_filters, base.py line 52, negated: the candidate is kept.
PassesFilters(len, cfg) == ~(len < cfg.min_length \/ len > cfg.max_length)

\* A generator is constructed with its configuration and generate(count) is
\* called on it (base.py lines 20-24, the first lines of each generate).
GenStart ==
    /\ gen.pc = "none"
    /\ \E kind \in LoopGenerators \cup DrawGenerators, cfg \in GenConfigs,
          count \in Counts, stream \in Streams :
          /\ kind = "random" => cfg.min_length <= cfg.max_length
          /\ gen' = [pc |-> "running", kind |-> kind, config |-> cfg, count |-> count,
                     stream |-> stream, pos |-> 0, generated |-> 0,
                     stats |-> [generated |-> 0, filtered |-> 0],
                     out |-> <<>>, generated_set |-> {}]
    /\ UNCHANGED <<configVars, crackerVars>>

\* One iteration of the loop of generate: the limit test passes, the next
\* candidate is made; None (markov) and a duplicate (random_gen.py lines
\* 76-77) are skipped; apply_filters either counts it as filtered or lets it
\* through, and then it is counted as generated and yielded.
GenNext ==
    /\ gen.pc = "running"
    /\ gen.pos < Len(gen.stream)
    /\ GoesOn(gen.kind, gen.count, gen.generated, gen.pos)
    /\ LET c == Candidate(gen.kind, gen.stream[gen.pos + 1], gen.config)
           drawn == [gen EXCEPT !.pos = @ + 1]
       IN gen' =
            IF c = Null THEN drawn
            ELSE IF gen.kind = "random" /\ c[1] \in gen.generated_set THEN drawn
            ELSE IF PassesFilters(c[1], gen.config)
                 THEN [drawn EXCEPT !.stats.generated = @ + 1,
                                    !.generated = @ + 1,
                                    !.out = Append(@, c[1]),
                                    !.generated_set =
                                        IF gen.kind = "random" THEN @ \cup {c[1]} ELSE @]
                 ELSE [drawn EXCEPT !.stats.filtered = @ + 1]
    /\ UNCHANGED <<configVars, crackerVars>>

\* generate ends: the limit test fails, or a loop generator has gone through
\* all its variations. (The loops of random and markov have no other exit;
\* the model follows them for the draws of the stream.)
GenFinish ==
    /\ gen.pc = "running"
    /\ \/ ~GoesOn(gen.kind, gen.count, gen.generated, gen.pos)
       \/ gen.kind \in LoopGenerators /\ gen.pos = Len(gen.stream)
    /\ gen' = [gen EXCEPT !.pc = "done"]
    /\ UNCHANGED <<configVars, crackerVars>>

\* The call has returned or raised: its locals are gone, the instance keeps
\* self.stats and its configuration, and the caller may start another run.
CallerResumes ==
    /\ pc \in {"done", "raised"}
    /\ pc' = "idle"
    /\ target_hash' = None
    /\ raw_target' = None
    /\ source' = <<>>
    /\ pulled' = 0
    /\ callback' = FALSE
    /\ callbackLog' = <<>>
    /\ password' = None
    /\ result' = None
    /\ batch' = <<>>
    /\ futures' = <<>>
    /\ error' = None
    /\ source_raises' = FALSE
    /\ target_hashes' = <<>>
    /\ remaining_hashes' = {}
    /\ results' = EmptyResults
    /\ snapshot' = NoSnapshot
    /\ UNCHANGED <<op, runs, workers, batch_size, stats, clock, algorithm>>
    /\ UNCHANGED extVars

Next ==
    \/ CrackStart
    \/ CrackIterate
    \/ CrackCallback
    \/ CrackReturnMatch
    \/ CrackExhausted
    \/ CrackSourceRaises
    \/ ParallelStart
    \/ ParallelPull
    \/ ParallelSubmitRest
    \/ WorkerStart
    \/ WorkerEvaluate
    \/ ParallelConsume
    \/ ParallelCallback
    \/ ParallelReturnMatch
    \/ ParallelExhausted
    \/ CallerResumes

Spec == Init /\ [][Next]_vars

\* The first crack_parallel run of an instance, on sources that may make a
\* worker raise.
NextFail ==
    \/ ParallelStartFaulty
    \/ ParallelPull
    \/ ParallelSubmitRest
    \/ WorkerStart
    \/ WorkerEvaluate
    \/ ParallelConsume
    \/ ParallelCallback
    \/ ParallelReturnMatch
    \/ ParallelExhausted
    \/ ParallelResultRaises
    \/ ParallelRaise

SpecFail == Init /\ [][NextFail]_vars

\* crack_parallel on an unbounded source, the worker processes scheduled
\* fairly and the orchestrating thread never starved.
NextUnbounded ==
    \/ ParallelStartUnbounded
    \/ ParallelPullUnbounded
    \/ WorkerStart
    \/ WorkerEvaluate

SpecUnbounded ==
    /\ Init
    /\ [][NextUnbounded]_vars
    /\ WF_vars(ParallelPullUnbounded)
    /\ WF_vars(WorkerStart)
    /\ WF_vars(WorkerEvaluate)

\* Construction from any configuration, then the first run on the new instance.
NextCtor ==
    \/ Construct
    \/ CrackStart
    \/ CrackIterate
    \/ CrackCallback
    \/ CrackReturnMatch
    \/ CrackExhausted
    \/ CrackSourceRaises
    \/ ParallelStart
    \/ ParallelPull
    \/ ParallelSubmitRest
    \/ WorkerStart
    \/ WorkerEvaluate
    \/ ParallelConsume
    \/ ParallelCallback
    \/ ParallelReturnMatch
    \/ ParallelExhausted
    \/ MultiStart
    \/ MultiIterate
    \/ MultiCallback
    \/ MultiExhausted
    \/ MultiSourceRaises

SpecCtor == InitNew /\ [][NextCtor]_vars

\* Runs of crack and crack_multiple on one instance, on sources that may raise,
\* with calls of get_stats in between.
NextMulti ==
    \/ MultiStart
    \/ MultiIterate
    \/ MultiCallback
    \/ MultiExhausted
    \/ MultiSourceRaises
    \/ CrackStart
    \/ CrackIterate
    \/ CrackCallback
    \/ CrackReturnMatch
    \/ CrackExhausted
    \/ CrackSourceRaises
    \/ GetStats
    \/ CallerResumes

\* crack, crack_multiple and get_stats never read self.workers or
\* self.batch_size: one configuration of the pool stands for all.
InitMulti == Init /\ workers = 1 /\ batch_size = 1

SpecMulti == InitMulti /\ [][NextMulti]_vars

\* Runs of crack on one instance whose caller calls get_stats, writes into the
\* dictionary it returned and keeps it over later runs.
NextSnap ==
    \/ CrackStart
    \/ CrackIterate
    \/ CrackCallback
    \/ CrackReturnMatch
    \/ CrackExhausted
    \/ CrackSourceRaises
    \/ GetStats
    \/ SnapshotMutate
    \/ CallerKeepsSnapshot

SpecSnap == InitMulti /\ [][NextSnap]_vars

\* ConfigManager instances of one process and the commands and handlers that
\* use them.
NextConfig ==
    \/ NewManager
    \/ ConfigSet
    \/ HandlerGet
    \/ HandlerOverride
    \/ HandlerEnd

SpecConfig == InitMulti /\ [][NextConfig]_vars

\* One generator of any of the five kinds and one call of generate on it.
NextGen ==
    \/ GenStart
    \/ GenNext
    \/ GenFinish

SpecGen == InitMulti /\ [][NextGen]_vars

\* ------------------------------------------------------- claim vocabulary
\* A candidate whose digest equals the (case-normalised) target of the run.
Matching(p) == hexdigest(p) = lower(raw_target)

\* The positions of the source that hold a matching candidate.
MatchIndexes == {i \in DOMAIN source : Matching(source[i])}

\* The first of them in stream order (used only where MatchIndexes is not empty).
FirstMatchIndex == CHOOSE i \in MatchIndexes : \A j \in MatchIndexes : i <= j

\* A run of the given method has returned to its caller.
Returned(method) == pc = "done" /\ op = method

\* ----------------------------------------------------------------- crack
\* C1: when the source holds a matching candidate, crack returns the first
\* matching element in stream order; the returned value depends on the source
\* and the target only, so every run over an equal source returns the same.
C1_CrackReturnsFirstMatch ==
    (Returned("crack") /\ MatchIndexes # {}) => result = source[FirstMatchIndex]

\* C1 witness: a second run on the instance returned the first of two matching
\* candidates, which is not the first element of the source.
C1_Witness ==
    /\ Returned("crack")
    /\ runs = 2
    /\ Cardinality(MatchIndexes) = 2
    /\ FirstMatchIndex = 2
    /\ result = source[2]

\* C2: if the N-th candidate is the first match, crack ends with attempts = N,
\* matches = 1 and exactly N candidates pulled from the source.
C2_CrackShortCircuit ==
    (Returned("crack") /\ MatchIndexes # {}) =>
        /\ stats.attempts = FirstMatchIndex
        /\ stats.matches = 1
        /\ pulled = FirstMatchIndex

\* C2 witness: the first match is the second of three candidates and the third
\* was never pulled.
C2_Witness ==
    /\ Returned("crack")
    /\ Len(source) = 3
    /\ MatchIndexes # {}
    /\ FirstMatchIndex = 2
    /\ stats.attempts = 2
    /\ pulled = 2

\* C3: when no candidate of the source matches, crack returns None with
\* attempts = the length of the source, matches = 0 and an end time recorded
\* during the run (later than its start time).
C3_CrackExhaustion ==
    (Returned("crack") /\ MatchIndexes = {}) =>
        /\ result = None
        /\ stats.attempts = Len(source)
        /\ stats.matches = 0
        /\ stats.end_time # NoTime
        /\ stats.end_time > stats.start_time

\* C3 witness: a source of several candidates was exhausted without a match,
\* with a target written in upper case.
C3_Witness ==
    /\ Returned("crack")
    /\ Len(source) >= 2
    /\ MatchIndexes = {}
    /\ raw_target # lower(raw_target)
    /\ result = None
    /\ stats.attempts = Len(source)

\* The run of crack has found a match (it is at or past the callback).
CrackMatched == op = "crack" /\ (pc = "crack_return" \/ (pc = "done" /\ result # None))

\* C4: in crack the callback has been invoked exactly once as soon as control is
\* past the callback statement of a matching run and before crack returns, with
\* the matched candidate, having seen matches = 1 and an end time recorded in
\* this run; in every other state of a run of crack it has not been invoked.
C4_CrackCallbackOnce ==
    (op = "crack" /\ pc # "idle") =>
        IF CrackMatched /\ callback
        THEN /\ Len(callbackLog) = 1
             /\ callbackLog[1].arg = password
             /\ Matching(callbackLog[1].arg)
             /\ callbackLog[1].matches = 1
             /\ callbackLog[1].end_time > stats.start_time
             /\ (pc = "done" => result = callbackLog[1].arg)
        ELSE callbackLog = <<>>

\* C4 witness: crack is between the callback and its return, the callback has
\* been invoked once with the empty-string candidate that matched.
C4_Witness ==
    /\ op = "crack"
    /\ pc = "crack_return"
    /\ callback
    /\ Len(callbackLog) = 1
    /\ callbackLog[1].arg = ""
    /\ pulled < Len(source)

\* --------------------------------------------------------- crack_parallel
\* The sum of the workers' attempt counts over a set of futures.
RECURSIVE SumAttempts(_)
SumAttempts(S) ==
    IF S = {} THEN 0
    ELSE LET i == CHOOSE x \in S : TRUE
         IN futures[i].attempts + SumAttempts(S \ {i})

\* The futures whose result as_completed has handed to the orchestrator.
Consumed == {i \in DOMAIN futures : futures[i].consumed}

\* The futures whose batch a worker has finished evaluating.
Finished == {i \in DOMAIN futures : futures[i].state = "finished"}

\* The orchestrator has taken the match branch of line 165.
MatchObserved == op = "crack_parallel" /\ pc \in {"par_callback", "par_shutdown"}

\* C5 (as claimed; refuted by the empty-string candidate): when exactly one
\* candidate of the source matches, crack_parallel returns that candidate,
\* for every worker count, batch size and completion order.
C5_ParallelUniqueMatch ==
    (Returned("crack_parallel") /\ Cardinality(MatchIndexes) = 1) =>
        result = source[FirstMatchIndex]

\* C6 (as claimed; refuted by the empty-string candidate): after
\* crack_parallel returns, attempts never exceeds the number of candidates
\* pulled from the source, and equals it when the run ends without a match.
C6_ParallelAttemptAccounting ==
    Returned("crack_parallel") =>
        /\ stats.attempts <= pulled
        /\ (result = None => stats.attempts = pulled)

\* The part of C6 the code keeps: attempts never exceeds the number of
\* candidates pulled, and equals it when no candidate of the source matches.
ParallelAttemptsWithoutMatchingCandidate ==
    Returned("crack_parallel") =>
        /\ stats.attempts <= pulled
        /\ (MatchIndexes = {} => stats.attempts = pulled)

\* C7 (as claimed; refuted by the empty-string candidate): crack_parallel
\* returns None only after the source is exhausted and every submitted batch has
\* been consumed with no match in its result, and whenever some candidate of the
\* source matches it returns a candidate whose digest equals the target.
C7_ParallelNoneOnlyOnExhaustion ==
    Returned("crack_parallel") =>
        /\ (result = None =>
               /\ pulled = Len(source)
               /\ \A i \in DOMAIN futures :
                     futures[i].consumed /\ futures[i].match = None)
        /\ (MatchIndexes # {} => (result # None /\ Matching(result)))

\* C8 (as claimed; refuted by the empty-string candidate): once the
\* orchestrator has consumed a result that carries a match, it is on its way
\* out with that candidate, cancel() has been called on every future, no batch
\* is left waiting, nothing more is pulled, and that candidate is what it returns.
C8_ParallelCancelOnFirstMatch ==
    op = "crack_parallel" =>
        \A i \in Consumed :
            futures[i].match # None =>
                /\ pc \in {"par_callback", "par_shutdown", "done"}
                /\ password = futures[i].match
                /\ \A j \in DOMAIN futures : futures[j].cancel_called
                /\ Pending = {}
                /\ pulled = Len(source)
                /\ (pc = "done" => result = futures[i].match)

\* C9 (as claimed; refuted): when crack_parallel returns a match, attempts
\* includes the attempt count of every batch that has completed, consumed or not.
C9_ParallelDrainsCompleted ==
    (Returned("crack_parallel") /\ result # None) =>
        stats.attempts = SumAttempts(Finished)

\* C9 (amended): during and after a run of crack_parallel, attempts is the sum
\* of the attempt counts of exactly the results the orchestrator has consumed, up
\* to and including the matching one; a batch that completed without its result
\* being consumed is not counted.
C9_ParallelCountsConsumedOnly ==
    (op = "crack_parallel" /\ pc # "idle") =>
        stats.attempts = SumAttempts(Consumed)

\* C9 witness: crack_parallel returned a match while another batch had completed,
\* with evaluated candidates, and its result was never consumed nor counted.
C9_Witness ==
    /\ Returned("crack_parallel")
    /\ result # None
    /\ \E i \in Finished : ~futures[i].consumed /\ futures[i].attempts > 0
    /\ stats.attempts < SumAttempts(Finished)

\* C10 (as claimed; refuted): once the orchestrator has observed a match and
\* called cancel, a worker in the middle of a batch (it has evaluated at least
\* one candidate of it) evaluates no further candidate of that batch.
C10_WorkersStopOnCancel ==
    [][MatchObserved =>
          \A i \in Running :
              futures[i].attempts > 0 => futures'[i].attempts = futures[i].attempts]_vars

\* C10 (amended): cancellation acts on whole batches. Once the orchestrator has
\* observed a match and called cancel, every batch is either cancelled without
\* a single candidate evaluated, or still being evaluated (crack_parallel has
\* not returned yet), or finished by its own worker: at its own match or after
\* the last candidate of the batch.
C10_CancelAtBatchGranularity ==
    (op = "crack_parallel" /\ pc \in {"par_callback", "par_shutdown", "done"}) =>
        \A i \in DOMAIN futures :
            LET f == futures[i]
            IN \/ f.state = "cancelled" /\ f.attempts = 0
               \/ f.state = "running" /\ pc # "done"
               \/ /\ f.state = "finished"
                  /\ \/ f.attempts = Len(f.passwords)
                     \/ f.match # None /\ f.match = f.passwords[f.attempts]

\* C10 witness: cancel has been called while a worker is in the middle of a
\* batch, with one candidate evaluated and one still to evaluate.
C10_Witness ==
    /\ MatchObserved
    /\ \E i \in Running :
          /\ futures[i].cancel_called
          /\ futures[i].attempts > 0
          /\ futures[i].attempts < Len(futures[i].passwords)

\* ------------------------------------------------- worker failure (SpecFail)
\* The orchestrator has observed a failed batch: future.result() raised.
FailureObserved ==
    op = "crack_parallel" /\ \E i \in Consumed : futures[i].state = "failed"

\* C11 (as claimed; refuted): once the orchestrator has observed a failed
\* batch, cancel() has been called on the remaining batches, none is left
\* waiting, the failure is raised to the caller and the run never returns None.
C11_ParallelFailureCancelsAndRaises ==
    FailureObserved =>
        /\ pc \in {"par_raising", "raised"}
        /\ \A j \in DOMAIN futures : ~futures[j].consumed => futures[j].cancel_called
        /\ (pc = "raised" => error = "WorkerError")

\* C11 (amended): once the orchestrator has observed a failed batch the run
\* can only end by raising that failure (it never returns, with None or
\* otherwise); no batch is cancelled: every submitted batch has run to its end
\* when the failure reaches the caller. A run that returns None has seen the
\* result of every batch and none of them failed.
C11_ParallelFailureRaisesAfterCompletion ==
    /\ FailureObserved =>
          /\ pc \in {"par_raising", "raised"}
          /\ error = "WorkerError"
          /\ \A j \in DOMAIN futures :
                ~futures[j].cancel_called /\ futures[j].state # "cancelled"
          /\ (pc = "raised" =>
                \A j \in DOMAIN futures : futures[j].state \in {"finished", "failed"})
    /\ (Returned("crack_parallel") /\ result = None) =>
          \A j \in DOMAIN futures : futures[j].consumed /\ futures[j].state = "finished"

\* C11 witness: the failure has reached the caller after another batch, never
\* cancelled and never consumed, was evaluated to its end.
C11_Witness ==
    /\ op = "crack_parallel"
    /\ pc = "raised"
    /\ error = "WorkerError"
    /\ \E j \in DOMAIN futures :
          /\ futures[j].state = "finished"
          /\ ~futures[j].consumed
          /\ futures[j].attempts = Len(futures[j].passwords)

\* --------------------------------------------------- construction (SpecCtor)
\* HashCracker(config) has returned an instance.
Constructed == pc \notin {"new", "ctor_raised"}

\* C12: an algorithm outside the supported identifiers makes the constructor
\* raise, and only that does; so every instance, and every run started on one,
\* has a supported algorithm.
C12_UnsupportedAlgorithmRejected ==
    /\ pc = "ctor_raised" =>
          (algorithm \notin SUPPORTED_ALGORITHMS /\ error = "ValueError" /\ runs = 0)
    /\ Constructed => algorithm \in SUPPORTED_ALGORITHMS

\* C12 witness: the constructor raised on the algorithm 'invalid' and no run
\* was started.
C12_Witness ==
    /\ pc = "ctor_raised"
    /\ algorithm = "invalid"
    /\ error = "ValueError"
    /\ runs = 0

\* C13 (as claimed; refuted): every constructed instance has a worker count and
\* a batch size of at least 1, and no ValueError about the configuration is
\* raised once the instance is constructed (during a crack_parallel run).
C13_BadPoolConfigRejected ==
    Constructed =>
        /\ workers >= 1
        /\ batch_size >= 1
        /\ error # "ValueError"

\* ------------------------------------------------- crack_multiple (SpecMulti)
\* The candidates of the source whose digest is h, by position.
IndexesOf(h) == {k \in 1..Len(source) : HashFunc(algorithm, source[k]) = h}

\* The position of the first candidate of the source whose digest is h.
FirstIndexOf(h) == CHOOSE k \in IndexesOf(h) : \A j \in IndexesOf(h) : k <= j

\* The targets as the caller gave them, and in lower case.
GivenTargets == {target_hashes[i] : i \in DOMAIN target_hashes}
NormalisedTargets == {lower(target_hashes[i]) : i \in DOMAIN target_hashes}

\* Every value of the mapping is a candidate of the source whose digest is its key.
ValuesHashToKeys ==
    \A h \in DOMAIN results :
        \E k \in 1..Len(source) : source[k] = results[h] /\ HashFunc(algorithm, source[k]) = h

\* C14 (as claimed; refuted): the mapping returned by crack_multiple has at most
\* as many entries as the target list, every key is an element of the target
\* list, and every value is a candidate whose digest equals its key.
C14_MultiKeysAmongTargets ==
    Returned("crack_multiple") =>
        /\ Cardinality(DOMAIN results) <= Len(target_hashes)
        /\ DOMAIN results \subseteq GivenTargets
        /\ ValuesHashToKeys

\* C14 (amended): the mapping returned by crack_multiple has at most as many
\* entries as the target list, every key is the lower-case form of an element
\* of the target list, and every value is a candidate whose digest equals its key.
C14_MultiKeysAreNormalisedTargets ==
    Returned("crack_multiple") =>
        /\ Cardinality(DOMAIN results) <= Len(target_hashes)
        /\ DOMAIN results \subseteq NormalisedTargets
        /\ ValuesHashToKeys

\* C14 witness: a target given in upper case only was resolved under its
\* lower-case key.
C14_Witness ==
    /\ Returned("crack_multiple")
    /\ "CA97" \in GivenTargets
    /\ "ca97" \notin GivenTargets
    /\ "ca97" \in DOMAIN results
    /\ results["ca97"] = "a"

\* Every target has a candidate in the source, and there is at least one target.
AllResolvable == NormalisedTargets # {} /\ \A h \in NormalisedTargets : IndexesOf(h) # {}

\* The position N of the candidate that resolves the last outstanding target.
LastResolvingIndex ==
    CHOOSE n \in {FirstIndexOf(h) : h \in NormalisedTargets} :
        \A h \in NormalisedTargets : FirstIndexOf(h) <= n

\* No candidate after the N-th is evaluated, and a run that returns has
\* counted exactly N attempts.
StopsAtLastResolving ==
    /\ stats.attempts <= LastResolvingIndex
    /\ pulled <= LastResolvingIndex + 1
    /\ pc = "done" => stats.attempts = LastResolvingIndex

\* C15 (as claimed; refuted): if the N-th candidate resolves the last
\* outstanding target, crack_multiple evaluates no candidate after the N-th
\* and ends with attempts = N and every target present in the mapping.
C15_MultiEarlyExit ==
    (op = "crack_multiple" /\ pc # "idle" /\ AllResolvable) =>
        /\ StopsAtLastResolving
        /\ pc = "done" => GivenTargets \subseteq DOMAIN results

\* C15 (amended): if the N-th candidate resolves the last outstanding target,
\* crack_multiple evaluates no candidate after the N-th and ends with
\* attempts = N and the lower-case form of every target present in the mapping.
C15_MultiEarlyExitNormalised ==
    (op = "crack_multiple" /\ pc # "idle" /\ AllResolvable) =>
        /\ StopsAtLastResolving
        /\ pc = "done" => NormalisedTargets \subseteq DOMAIN results

\* C15 witness: two targets were resolved by the second candidate, a third
\* candidate was pulled and not evaluated.
C15_Witness ==
    /\ Returned("crack_multiple")
    /\ AllResolvable
    /\ Cardinality(DOMAIN results) = 2
    /\ LastResolvingIndex = 2
    /\ Len(source) = 3
    /\ pulled = 3
    /\ stats.attempts = 2

\* The positions of a crack_multiple run inside its loop.
InMultiLoop == op = "crack_multiple" /\ pc \in {"multi_loop", "multi_callback"}

\* C16: in crack_multiple every resolved target is held by the first candidate
\* in stream order whose digest equals it, a target is either outstanding or
\* resolved, matches counts the resolved targets; in every step of the loop the
\* outstanding set only shrinks, by at most one target, which is then counted
\* once, and no recorded candidate is replaced.
C16_MultiFirstFoundWins ==
    /\ [](op = "crack_multiple" /\ pc # "idle" =>
            /\ \A h \in DOMAIN results :
                  /\ results[h] = source[FirstIndexOf(h)]
                  /\ FirstIndexOf(h) <= pulled
                  /\ h \notin remaining_hashes
            /\ remaining_hashes \cup DOMAIN results = NormalisedTargets
            /\ stats.matches = Cardinality(DOMAIN results))
    /\ [][InMultiLoop =>
            /\ remaining_hashes' \subseteq remaining_hashes
            /\ Cardinality(remaining_hashes \ remaining_hashes') <= 1
            /\ stats'.matches = stats.matches + Cardinality(remaining_hashes \ remaining_hashes')
            /\ \A h \in DOMAIN results :
                  h \in DOMAIN results' /\ results'[h] = results[h]]_vars

\* C16 witness: a second candidate with the digest of an already resolved
\* target was evaluated while another target was still outstanding.
C16_Witness ==
    /\ InMultiLoop
    /\ remaining_hashes # {}
    /\ \E h \in DOMAIN results :
          \E k \in IndexesOf(h) : k > FirstIndexOf(h) /\ k <= stats.attempts
    /\ stats.matches = 1

\* C17 (as claimed; refuted): the matches statistic reported after a run is at
\* most 1 after crack or crack_parallel and at most the number of distinct
\* targets after crack_multiple, whatever runs came before on the instance.
C17_MatchesBoundedByTargets ==
    /\ (Returned("crack") \/ Returned("crack_parallel")) => stats.matches <= 1
    /\ Returned("crack_multiple") => stats.matches <= Cardinality(GivenTargets)

\* C18 (as claimed; refuted): within one run the end time is assigned once:
\* when the end time of the statistics was already assigned in the run in
\* progress (it is later than the start time of the run), no further step of
\* that run assigns it again.
C18_EndTimeAssignedOnce ==
    [][(pc \notin {"idle", "done", "raised"} /\ runs' = runs
           /\ stats.end_time > stats.start_time)
         => stats'.end_time = stats.end_time]_vars

\* C19 (as claimed; refuted): whenever get_stats is called while the most
\* recently started run has not completed (before any run, inside a callback,
\* after a run that raised), it reports elapsed time and rate as null.
C19_StatsNullUnlessCompleted ==
    (snapshot.taken /\ snapshot.at # "done") =>
        /\ snapshot.view.elapsed_time = Null
        /\ snapshot.view.rate = Null

\* C20: when the source raises after yielding its k candidates, crack and
\* crack_multiple have raised to the caller with exactly those k candidates
\* pulled and counted as attempts and with matches equal to the matches found
\* among them; a run on such a source that returned did so before the raise.
C20_SourceErrorPropagates ==
    /\ (pc = "raised" /\ error = "SourceError") =>
          /\ source_raises
          /\ pulled = Len(source)
          /\ stats.attempts = Len(source)
          /\ op = "crack" => stats.matches = 0 /\ MatchIndexes = {}
          /\ op = "crack_multiple" =>
                stats.matches = Cardinality({h \in NormalisedTargets : IndexesOf(h) # {}})
    /\ (pc = "done" /\ source_raises) =>
          /\ op = "crack" => MatchIndexes # {}
          /\ op = "crack_multiple" => remaining_hashes = {}

\* C20 witness: crack_multiple raised after two candidates, one of which
\* resolved a target while another target stayed outstanding.
C20_Witness ==
    /\ pc = "raised"
    /\ op = "crack_multiple"
    /\ error = "SourceError"
    /\ Len(source) = 2
    /\ stats.attempts = 2
    /\ stats.matches = 1
    /\ remaining_hashes # {}

\* ------------------------------------------- crack_parallel batching (Spec)
\* The candidates of the submitted batches, concatenated in submission order.
RECURSIVE ConcatBatches(_)
ConcatBatches(n) ==
    IF n = 0 THEN <<>> ELSE ConcatBatches(n - 1) \o futures[n].passwords

\* A crack_parallel run is in progress or has just ended.
InParallelRun == op = "crack_parallel" /\ pc \notin {"idle", "raised"}

\* C25: the batches submitted by crack_parallel, concatenated in submission
\* order and followed by the batch being filled, are the sequence pulled from
\* the source; after the pull loop they are the whole source; every
\* batch is non-empty; every batch but the last has exactly batch_size
\* candidates and the last at most batch_size; a submitted batch is never
\* modified.
C25_BatchesPartitionStream ==
    /\ [](InParallelRun /\ batch_size >= 1 =>
            /\ pc = "par_pull" =>
                  /\ ConcatBatches(Len(futures)) \o batch = SubSeq(source, 1, pulled)
                  /\ Len(batch) < batch_size
            /\ pc # "par_pull" =>
                  /\ pulled = Len(source)
                  /\ ConcatBatches(Len(futures)) = source
            /\ \A i \in DOMAIN futures :
                  /\ futures[i].passwords # <<>>
                  /\ Len(futures[i].passwords) <= batch_size
                  /\ i < Len(futures) => Len(futures[i].passwords) = batch_size)
    /\ [][InParallelRun /\ runs' = runs /\ pc' # "idle" =>
            /\ Len(futures') >= Len(futures)
            /\ \A i \in DOMAIN futures : futures'[i].passwords = futures[i].passwords]_vars

\* C25 witness: three candidates went out as a full batch of two and a last,
\* partial batch of one.
C25_Witness ==
    /\ InParallelRun
    /\ pc = "par_collect"
    /\ batch_size = 2
    /\ Len(source) = 3
    /\ Len(futures) = 2
    /\ Len(futures[1].passwords) = 2
    /\ Len(futures[2].passwords) = 1

\* C26: at every moment of a crack_parallel run at most `workers` batches are
\* being evaluated, and a candidate is pulled from the source only by a step
\* of the orchestrating thread in its pull loop, one candidate at a time,
\* which leaves every worker's batch as it is.
C26_BoundedPoolSinglePuller ==
    /\ [](op = "crack_parallel" => Cardinality(Running) <= workers)
    /\ [][(InParallelRun /\ runs' = runs /\ pc' # "idle" /\ pulled' # pulled) =>
            /\ pc = "par_pull"
            /\ pulled' = pulled + 1
            /\ \A i \in DOMAIN futures : futures'[i] = futures[i]]_vars

\* C26 witness: every worker is busy, a batch waits in the queue and the
\* orchestrating thread is still pulling.
C26_Witness ==
    /\ op = "crack_parallel"
    /\ pc = "par_pull"
    /\ pulled >= 2
    /\ Cardinality(Running) = workers
    /\ Pending # {}

\* --------------------------------- crack_multiple, source and callback (SpecMulti)
\* C27 (as claimed; refuted): crack_multiple has pulled from the source exactly
\* as many candidates as it has evaluated (the attempts statistic); in
\* particular it pulls nothing once the outstanding set is empty, also when
\* the target list is empty from the start.
C27_MultiPullsOnlyEvaluated ==
    (op = "crack_multiple" /\ pc # "idle") =>
        /\ pulled = stats.attempts
        /\ target_hashes = <<>> => pulled = 0

\* C28: in a crack_multiple run with a callback, the i-th invocation is the
\* one for the i-th resolved target in the stream order of the resolving
\* candidates: its arguments are (target digest, candidate recorded for it),
\* and it comes after the target was marked resolved and counted (it sees
\* matches = i); outside the callback position the number of invocations
\* equals the matches statistic and the size of the mapping.
C28_MultiCallbackPerResolvedTarget ==
    (op = "crack_multiple" /\ pc # "idle" /\ callback) =>
        /\ \A i \in DOMAIN callbackLog :
              LET h == callbackLog[i].arg[1]
                  p == callbackLog[i].arg[2]
              IN /\ h \in DOMAIN results
                 /\ h \in NormalisedTargets
                 /\ h \notin remaining_hashes
                 /\ results[h] = p
                 /\ HashFunc(algorithm, p) = h
                 /\ callbackLog[i].matches = i
                 /\ \A j \in DOMAIN callbackLog :
                       i < j => FirstIndexOf(h) < FirstIndexOf(callbackLog[j].arg[1])
        /\ pc = "multi_callback" =>
              /\ Len(callbackLog) = stats.matches - 1
              /\ HashFunc(algorithm, password) \in DOMAIN results
              /\ HashFunc(algorithm, password) \notin remaining_hashes
        /\ pc # "multi_callback" =>
              /\ Len(callbackLog) = stats.matches
              /\ Len(callbackLog) = Cardinality(DOMAIN results)

\* C28 witness: a run with a callback returned two resolved targets after two
\* invocations, a non-matching candidate lying between the resolving ones.
C28_Witness ==
    /\ Returned("crack_multiple")
    /\ callback
    /\ Len(callbackLog) = 2
    /\ Cardinality(DOMAIN results) = 2
    /\ stats.attempts = 3

\* ------------------------------------------------------ get_stats (SpecSnap)
\* What the caller reads in the dictionary get_stats returned: the values
\* stored in it, or those of self.stats if it is that very object.
DictContent ==
    IF snapshot.live
    THEN [snapshot.view EXCEPT !.attempts = stats.attempts, !.matches = stats.matches,
                               !.start_time = stats.start_time, !.end_time = stats.end_time]
    ELSE snapshot.view

\* C29: the dictionary returned by get_stats is a snapshot: a step of a run
\* (any step that is not a call of get_stats or a write of the caller into the
\* dictionary) leaves its content as it is, and a write of the caller into it
\* leaves the cracker's own statistics as they are.
C29_StatsSnapshotIndependent ==
    /\ [][(snapshot.taken /\ snapshot' = snapshot) => DictContent' = DictContent]_vars
    /\ [][(snapshot.taken /\ snapshot' # snapshot
              /\ snapshot' = [snapshot EXCEPT !.view.attempts = Tampered])
            => stats' = stats]_vars

\* C29 witness: the caller wrote into the dictionary it got during the first
\* run, and a second run has since counted attempts of its own.
C29_Witness ==
    /\ snapshot.taken
    /\ snapshot.run = 1
    /\ snapshot.view.attempts = Tampered
    /\ runs = 2
    /\ pc = "done"
    /\ stats.attempts = 2

\* ------------------------------------- crack_parallel, unbounded source (SpecUnbounded)
\* C24 (as claimed; refuted): in a crack_parallel run on an unbounded source
\* once a worker has found the match in its batch, the run eventually returns
\* that match.
C24_ParallelReturnsOnUnboundedSource ==
    (op = "crack_parallel" /\ pc = "par_pull_unbounded"
        /\ \E i \in DOMAIN futures :
              futures[i].state = "finished" /\ Truthy(futures[i].match))
    ~> (Returned("crack_parallel") /\ result # None)

\* ---------------------------------------------------- ConfigManager (SpecConfig)
\* What the manager i reports now.
Reported(i) == ReportOf(heap, managers[i].refs)

\* C21 (as claimed; refuted): every ConfigManager constructed without a
\* configuration file reports the default values, whatever was loaded or set
\* on other instances before.
C21_FreshManagerReportsDefaults ==
    \A i \in DOMAIN managers :
        ~managers[i].from_file =>
            /\ managers[i].first.algorithm = "sha256"
            /\ managers[i].first.max_substitutions = 3

\* C30 (as claimed; refuted): a per-call override written into the dictionary
\* that get_generator_config or get_cracker_config returned leaves what every
\* manager reports as it was.
C30_OverridesDoNotLeak ==
    [][(request.active /\ ~request.written /\ request'.active /\ request'.written)
         => \A i \in DOMAIN managers : Reported(i)' = Reported(i)]_vars

\* ------------------------------------------------- PasswordGenerator (SpecGen)
\* C22 (as claimed; refuted): for every generator and every integer count >= 0,
\* generate(count) yields at most count passwords.
C22_GenerateYieldsAtMostCount ==
    (gen.pc # "none" /\ gen.count # Null) => Len(gen.out) <= gen.count[1]

\* Every password yielded is within the configured lengths and was counted
\* as generated.
YieldedInRange ==
    /\ \A k \in DOMAIN gen.out :
          gen.config.min_length <= gen.out[k] /\ gen.out[k] <= gen.config.max_length
    /\ gen.stats.generated = Len(gen.out)

\* The candidates made so far whose length is outside the configured range.
OutOfRange ==
    {k \in 1..gen.pos :
        LET len == RawLen(gen.kind, gen.stream[k], gen.config)
        IN len < gen.config.min_length \/ len > gen.config.max_length}

====
